---- MODULE Spec2Model ----
(***************************************************************************)
(* Model of restify-prom-bundle's pre-middleware (src/src/preMiddleware.ts) *)
(* as a state machine: construction of middleware instances, the module-    *)
(* level exclusion cache, the per-request handler (route lookup callback),  *)
(* and the response-finish callbacks that feed the two metrics.             *)
(***************************************************************************)
EXTENDS Bags, FiniteSets, Integers, Sequences, TLC

(* ------------------------------ bounds --------------------------------- *)
\* number of requests dispatched over the model's lifetime
MaxReqs == 2
\* number of successfully constructed middleware instances
MaxInst == 2
\* number of direct PathLimit.registerPath calls in the limiter specification
MaxCalls == 4
\* largest capacity tried in the limiter specification
MaxCap == 2

(* ------------------------- program constants --------------------------- *)
\* defaultConfig.maxPathsToCount
DefaultMaxPathsToCount == 100
\* defaultConfig.promDefaultDelay
DefaultPromDelay == 1000
\* the lowest promDefaultDelay checkConfig accepts
MinPromDelay == 1000

(* --------------------------- JavaScript values ------------------------- *)
\* A JavaScript value: its kind, its textual content (string value, array
\* items, regexp source, function name) and its numeric content (number
\* value, boolean as 0/1).
JSV(t, s, n) == [type |-> t, s |-> s, n |-> n]
Undefined == JSV("undefined", {}, 0)
\* a key that the user's config object does not have at all
Absent == JSV("absent", {}, 0)
Null == JSV("null", {}, 0)
Str(s) == JSV("string", {s}, 0)
Num(n) == JSV("number", {}, n)
Bool(b) == JSV("boolean", {}, IF b THEN 1 ELSE 0)
Arr(items) == JSV("array", items, 0)
Rx(source) == JSV("regexp", {source}, 0)
Fn(name) == JSV("function", {name}, 0)
Obj == JSV("object", {}, 0)
\* not a value: the completion of a call that throws instead of returning
Thrown == JSV("throw", {}, 0)

\* ToBoolean of a JavaScript value (used by `if (v)`, `!v`, `v && ...`)
Truthy(v) ==
  CASE v.type \in {"undefined", "absent", "null"} -> FALSE
    [] v.type = "boolean" -> v.n = 1
    [] v.type = "number" -> v.n # 0
    [] v.type = "string" -> v.s # {""}
    [] OTHER -> TRUE

\* the typeof operator
TypeOf(v) ==
  CASE v.type \in {"array", "regexp", "null", "object"} -> "object"
    [] v.type = "absent" -> "undefined"
    [] OTHER -> v.type

(* ------------------------------ universe ------------------------------- *)
\* requests the clients send: raw path (req.path()) and method
RequestInputs ==
  { [url |-> "/health", method |-> "GET"],
    [url |-> "/orders/7", method |-> "POST"],
    [url |-> "/does-not-exist", method |-> "GET"] }

\* every raw path the routing table below knows how to answer
Urls == {"/health", "/orders/7", "/orders/9", "/files/a", "/does-not-exist"}

\* source text of the pattern route registered on the server
FilesRouteSource == "/^\\/files\\/(.*)/"

\* the server's routing table as seen through server.router.find: the
\* callback receives an error (no route) or a route whose spec carries a
\* path (string or RegExp) or, failing that, a url.
RouterFind(url) ==
  CASE url = "/health" ->
         [error |-> FALSE, path |-> Undefined, url |-> Str("/health")]
    [] url \in {"/orders/7", "/orders/9"} ->
         [error |-> FALSE, path |-> Str("/orders/:id"), url |-> Undefined]
    [] url = "/files/a" ->
         [error |-> FALSE, path |-> Rx(FilesRouteSource), url |-> Undefined]
    [] OTHER ->
         [error |-> TRUE, path |-> Undefined, url |-> Undefined]

\* String(v) for the values a route spec can carry
PathToString(v) == CHOOSE s \in v.s : TRUE

\* the label taken from the request alone, whatever the router found
ResolvePathRaw(reqPath, found) == reqPath

\* lines 209-219: the label computed for a request
ResolvePath(reqPath, found) ==
  IF ~found.error
  THEN LET routePath == IF Truthy(found.path) THEN found.path ELSE found.url
       IN IF routePath.type = "regexp"
          THEN "RegExp(" \o PathToString(routePath) \o ")"
          ELSE PathToString(routePath)
  ELSE reqPath

\* every label the requests of the universe can resolve to
Paths == { ResolvePath(u, RouterFind(u)) : u \in Urls }

\* RegExp.prototype.test for the exclude patterns used below, given by the
\* set of labels of the universe each pattern matches
RegExpTest(rx, path) ==
  CASE rx.s = {"/^\\/does/"} -> path \in {"/does-not-exist"}
    [] rx.s = {"/^\\/orders\\//"} -> path \in {"/orders/:id"}
    [] OTHER -> FALSE

\* the values a user-supplied exclude predicate can return for a path
\*   isOrders : p => p.match(/^\/orders/)      (match object or null)
\*   flaky    : () => Math.random() < 0.5
\*   broken   : p => p.route.name === 'health' (p is a string: TypeError)
FnReturns(fn, path) ==
  CASE fn.s = {"isOrders"} ->
         IF path = "/orders/:id" THEN {Obj} ELSE {Null}
    [] fn.s = {"flaky"} -> {Bool(TRUE), Bool(FALSE)}
    [] fn.s = {"broken"} -> {Thrown}
    [] OTHER -> {Undefined}

(* --------------------------- configuration ----------------------------- *)
\* a user config object: type is the kind of the second argument itself,
\* the other fields are its options (Absent when the key is missing)
UserConfig(t, route, exclude, blacklist, delay, maxPaths) ==
  [type |-> t, s |-> {}, n |-> 0, route |-> route, exclude |-> exclude,
   promBlacklist |-> blacklist, promDefaultDelay |-> delay,
   maxPathsToCount |-> maxPaths]
ObjConfig(exclude, maxPaths) ==
  UserConfig("object", Absent, exclude, Absent, Absent, maxPaths)

\* lines 47-52
defaultConfig ==
  [route |-> Str("/metrics"), exclude |-> Absent,
   promBlacklist |-> Arr({}), promDefaultDelay |-> Num(DefaultPromDelay),
   maxPathsToCount |-> Num(DefaultMaxPathsToCount)]

\* second arguments that pass checkConfig
ValidUserConfigs ==
  { UserConfig("undefined", Absent, Absent, Absent, Absent, Absent),
    ObjConfig(Str("/health"), Num(1)),
    ObjConfig(Fn("flaky"), Num(0)) }

\* second arguments that checkConfig rejects
InvalidUserConfigs ==
  { UserConfig("object", Absent, Absent, Absent, Num(MinPromDelay - 1), Absent) }

UserConfigs == ValidUserConfigs \cup InvalidUserConfigs

\* first arguments: a restify server, or something that is not one
Servers == {"server", "notAServer"}
\* the calls of preMiddleware the program makes
ConstructorCalls ==
  { <<"server", c>> : c \in UserConfigs } \cup { <<"notAServer", Undefined>> }
\* line 180
ValidServer(server) == server = "server"

\* lines 110-114: assign({}, defaultConfig, userConfig || {})
MergeConfig(userConfig) ==
  LET pick(k) == IF userConfig.type = "object" /\ userConfig[k].type # "absent"
                 THEN userConfig[k] ELSE defaultConfig[k]
  IN [route |-> pick("route"), exclude |-> pick("exclude"),
      promBlacklist |-> pick("promBlacklist"),
      promDefaultDelay |-> pick("promDefaultDelay"),
      maxPathsToCount |-> pick("maxPathsToCount")]

\* lines 104-144: valid tells whether checkConfig returns, config what it
\* returns (with a string exclude turned into a one-element array)
checkConfig(userConfig) ==
  LET merged == MergeConfig(userConfig)
      exclude == IF TypeOf(merged.exclude) = "string"
                 THEN Arr(merged.exclude.s) ELSE merged.exclude
      cfg == [merged EXCEPT !.exclude = exclude]
      badArg == TypeOf(userConfig) # "object" /\ userConfig.type # "undefined"
      badRoute == /\ ~(cfg.route.type = "boolean" /\ cfg.route.n = 0)
                  /\ (TypeOf(cfg.route) # "string" \/ ~Truthy(cfg.route))
      badExclude == /\ Truthy(cfg.exclude)
                    /\ cfg.exclude.type # "array"
                    /\ cfg.exclude.type # "regexp"
                    /\ TypeOf(cfg.exclude) # "function"
      badBlacklist == cfg.promBlacklist.type # "array"
      badDelay == \/ TypeOf(cfg.promDefaultDelay) # "number"
                  \/ cfg.promDefaultDelay.n < MinPromDelay
  IN [valid |-> ~(badArg \/ badRoute \/ badExclude \/ badBlacklist \/ badDelay),
      config |-> cfg]

(* --------------------------- exclusion matcher ------------------------- *)
\* the cache object {} and the assignment cache[path] = v
EmptyCache == [p \in {} |-> FALSE]
CachePut(cache, path, v) ==
  [p \in DOMAIN cache \cup {path} |-> IF p = path THEN v ELSE cache[p]]

\* lines 82-91 decide whether the exclusion rules call the user's predicate
CallsPredicate(path, cfg, cache) ==
  /\ Truthy(cfg.exclude)
  /\ path \notin DOMAIN cache
  /\ cfg.exclude.type # "array"
  /\ cfg.exclude.type # "regexp"
  /\ TypeOf(cfg.exclude) = "function"

\* the values the predicate call of this shouldMeasure call can produce
\* (Absent when the call does not reach the predicate)
PredicateOutcomes(path, cfg, cache) ==
  IF CallsPredicate(path, cfg, cache)
  THEN FnReturns(cfg.exclude, path) ELSE {Absent}

\* shouldMeasure with the predicate's result compared to true instead of
\* being coerced with !!
shouldMeasureStrictTrue(path, cfg, cache, ret) ==
  IF Truthy(cfg.exclude)
  THEN IF path \in DOMAIN cache
       THEN [measure |-> ~cache[path], cache |-> cache,
             hit |-> TRUE, evaluated |-> FALSE, threw |-> FALSE]
       ELSE LET isExcluded ==
                  \/ cfg.exclude.type = "array" /\ path \in cfg.exclude.s
                  \/ cfg.exclude.type = "regexp" /\ RegExpTest(cfg.exclude, path)
                  \/ TypeOf(cfg.exclude) = "function" /\ ret = Bool(TRUE)
            IN [measure |-> ~isExcluded,
                cache |-> CachePut(cache, path, isExcluded),
                hit |-> FALSE, evaluated |-> TRUE, threw |-> FALSE]
  ELSE [measure |-> TRUE, cache |-> cache, hit |-> FALSE, evaluated |-> FALSE,
        threw |-> FALSE]

\* lines 72-99: shouldMeasure(path, config) run against the module's cache,
\* ret being what the predicate returns if it is called.  measure is the
\* returned boolean, cache the cache afterwards, hit whether the cached
\* decision was used, evaluated whether the exclusion rules were computed,
\* threw whether the call ended with the predicate's exception instead of
\* returning (line 88 is not guarded, line 92 is then not reached).
shouldMeasure(path, cfg, cache, ret) ==
  IF Truthy(cfg.exclude)
  THEN IF path \in DOMAIN cache
       THEN [measure |-> ~cache[path], cache |-> cache,
             hit |-> TRUE, evaluated |-> FALSE, threw |-> FALSE]
       ELSE IF /\ cfg.exclude.type = "array" /\ path \in cfg.exclude.s
            THEN [measure |-> FALSE, cache |-> CachePut(cache, path, TRUE),
                  hit |-> FALSE, evaluated |-> TRUE, threw |-> FALSE]
            ELSE IF cfg.exclude.type = "regexp" /\ RegExpTest(cfg.exclude, path)
            THEN [measure |-> FALSE, cache |-> CachePut(cache, path, TRUE),
                  hit |-> FALSE, evaluated |-> TRUE, threw |-> FALSE]
            ELSE IF TypeOf(cfg.exclude) = "function" /\ ret = Thrown
            THEN [measure |-> FALSE, cache |-> cache,
                  hit |-> FALSE, evaluated |-> TRUE, threw |-> TRUE]
            ELSE LET isExcluded == TypeOf(cfg.exclude) = "function" /\ Truthy(ret)
                 IN [measure |-> ~isExcluded,
                     cache |-> CachePut(cache, path, isExcluded),
                     hit |-> FALSE, evaluated |-> TRUE, threw |-> FALSE]
  ELSE [measure |-> TRUE, cache |-> cache, hit |-> FALSE, evaluated |-> FALSE,
        threw |-> FALSE]

(* ------------------------------ path limiter --------------------------- *)
\* new PathLimit(max)
NewPathLimit(max) == [max |-> max, paths |-> {}]

\* registerPath admitting while the set is at capacity (<= for <)
registerPathOffByOne(limiter, path) ==
  IF path \in limiter.paths
  THEN [result |-> TRUE, limiter |-> limiter]
  ELSE IF Cardinality(limiter.paths) <= limiter.max
  THEN [result |-> TRUE,
        limiter |-> [limiter EXCEPT !.paths = @ \cup {path}]]
  ELSE [result |-> FALSE, limiter |-> limiter]

\* registerPath without the test for a path that is already a member
registerPathNoMemberTest(limiter, path) ==
  IF Cardinality(limiter.paths) < limiter.max
  THEN [result |-> TRUE,
        limiter |-> [limiter EXCEPT !.paths = @ \cup {path}]]
  ELSE [result |-> FALSE, limiter |-> limiter]

\* PathLimit.registerPath(path): result is the returned boolean, limiter the
\* limiter afterwards
registerPath(limiter, path) ==
  IF path \in limiter.paths
  THEN [result |-> TRUE, limiter |-> limiter]
  ELSE IF Cardinality(limiter.paths) < limiter.max
  THEN [result |-> TRUE,
        limiter |-> [limiter EXCEPT !.paths = @ \cup {path}]]
  ELSE [result |-> FALSE, limiter |-> limiter]

(* -------------------------------- metrics ------------------------------ *)
\* lines 149-167: the properties initMetrics sets on the metrics object
initMetrics == {"requestHistogram", "requestCounter"}
\* truthiness of metrics[name]
HasMetric(name) == name \in initMetrics

\* Instrument starting the timer for unmatched requests too
InstrumentTimesUnmatched(measure, routeFindError, limiter, path) ==
  LET timed == measure /\ HasMetric("requestHistogram")
      asked == measure /\ HasMetric("requestCounte")
      reg == registerPath(limiter, path)
  IN [timed |-> timed,
      counted |-> asked /\ reg.result,
      limiter |-> IF asked THEN reg.limiter ELSE limiter]

\* Instrument putting the timer behind the path limiter as well
InstrumentLimitsTimer(measure, routeFindError, limiter, path) ==
  LET reg == registerPath(limiter, path)
      timed == measure /\ HasMetric("requestHistogram") /\ ~routeFindError
                 /\ reg.result
      asked == measure /\ HasMetric("requestCounte")
  IN [timed |-> timed,
      counted |-> asked /\ reg.result,
      limiter |-> IF asked THEN reg.limiter ELSE limiter]

\* Instrument handing every path to the limiter, excluded or not
InstrumentCountsExcluded(measure, routeFindError, limiter, path) ==
  LET timed == measure /\ HasMetric("requestHistogram") /\ ~routeFindError
      asked == HasMetric("requestCounter")
      reg == registerPath(limiter, path)
  IN [timed |-> timed, counted |-> measure /\ asked /\ reg.result,
      limiter |-> IF asked THEN reg.limiter ELSE limiter]

\* lines 222-250: what the handler arranges for a request once the path is
\* known: timed = a timer is started and its end callback registered,
\* counted = the counter callback is registered, limiter = the path limiter
\* afterwards (registerPath is only reached when the left operand of && holds)
Instrument(measure, routeFindError, limiter, path) ==
  LET timed == measure /\ HasMetric("requestHistogram") /\ ~routeFindError
      asked == measure /\ HasMetric("requestCounte")
      reg == registerPath(limiter, path)
  IN [timed |-> timed,
      counted |-> asked /\ reg.result,
      limiter |-> IF asked THEN reg.limiter ELSE limiter]

\* startTimer recording an observation (with no status yet) at once
startTimerObservesNow(timed, path, method) ==
  [timer |-> IF timed THEN <<[path |-> path, method |-> method]>> ELSE <<>>,
   observed |-> IF timed
                THEN <<[path |-> path, method |-> method, status_code |-> 0]>>
                ELSE <<>>]

\* lines 226-229: requestHistogram.startTimer({path, method}) keeps the two
\* labels for the end function it returns and observes nothing itself
startTimer(timed, path, method) ==
  [timer |-> IF timed THEN <<[path |-> path, method |-> method]>> ELSE <<>>,
   observed |-> <<>>]

\* the status code a response has while the handler runs (Node's default)
\* turned into a label: what a label computed at registration would be
StatusCodeLabelAtRegistration(res2) == 200

\* lines 232 and 244: (res2 && res2.statusCode) ? res2.statusCode : 0
StatusCodeLabel(res2) ==
  IF res2.defined /\ res2.statusCode # 0 THEN res2.statusCode ELSE 0

\* what on-finished hands to the callbacks: the response is missing, or it
\* has a status code (0 standing for an unset one)
ResponsesAtFinish ==
  { [defined |-> FALSE, statusCode |-> 0],
    [defined |-> TRUE, statusCode |-> 200],
    [defined |-> TRUE, statusCode |-> 404] }
\* the same, and a response whose status code is unset
AllResponsesAtFinish ==
  ResponsesAtFinish \cup { [defined |-> TRUE, statusCode |-> 0] }

(* -------------------------------- state -------------------------------- *)
VARIABLES
  shouldMeasureExcludedCache, \* the module's decision cache: path -> excluded?
  config,            \* per instance: the checked config its handler closes over
  pathLimiter,       \* per instance: its PathLimit
  requestHistogram,  \* per instance: observations of the histogram, by labels
  requestCounter,    \* per instance: increments of the counter, by labels
  req,               \* per request: where it is in the handler and what it saw
  calls,             \* the direct calls made in the one-component specifications
  serverPre,         \* the scrape routes registered with server.pre
  defaultMetrics     \* the calls client.defaultMetrics(blacklist, delay)

vars == <<shouldMeasureExcludedCache, config, pathLimiter, requestHistogram,
          requestCounter, req, calls, serverPre, defaultMetrics>>

Reqs == 1..MaxReqs
Instances == 1..Len(config)

NoResponse == [defined |-> FALSE, statusCode |-> 0]

\* a request that has not arrived yet
IdleReq ==
  [pc |-> "idle", inst |-> 0, url |-> "", method |-> "", path |-> "",
   routeFindError |-> FALSE, measure |-> FALSE, hit |-> FALSE,
   evaluated |-> FALSE, ret |-> Absent, timer |-> <<>>, onFinished |-> <<>>,
   nextCalls |-> 0, res |-> NoResponse, hist |-> <<>>, cnt |-> <<>>]

\* the module is loaded, nothing is constructed, no request has arrived (the
\* cache variable is still unset then; nothing reads it before the first
\* construction call replaces it, so it is shown as the empty cache)
Init ==
  /\ shouldMeasureExcludedCache = EmptyCache
  /\ config = <<>>
  /\ pathLimiter = <<>>
  /\ requestHistogram = <<>>
  /\ requestCounter = <<>>
  /\ req = [r \in Reqs |-> IdleReq]
  /\ calls = <<>>
  /\ serverPre = <<>>
  /\ defaultMetrics = <<>>

(* ------------------------------- actions ------------------------------- *)
\* lines 172-198, a call preMiddleware(server, userConfig) that returns a
\* handler: the cache is replaced, the config checked, the default probes
\* started, the limiter created, the scrape route registered unless route is
\* false, the instruments created
Construct(server, userConfig) ==
  /\ Len(config) < MaxInst
  /\ ValidServer(server)
  /\ checkConfig(userConfig).valid
  /\ shouldMeasureExcludedCache' = EmptyCache
  /\ config' = Append(config, checkConfig(userConfig).config)
  /\ pathLimiter' =
       Append(pathLimiter, NewPathLimit(checkConfig(userConfig).config.maxPathsToCount.n))
  /\ requestHistogram' = Append(requestHistogram, EmptyBag)
  /\ requestCounter' = Append(requestCounter, EmptyBag)
  /\ defaultMetrics' = Append(defaultMetrics,
                              [blacklist |-> checkConfig(userConfig).config.promBlacklist,
                               delay |-> checkConfig(userConfig).config.promDefaultDelay.n])
  /\ serverPre' = IF Truthy(checkConfig(userConfig).config.route)
                  THEN Append(serverPre, PathToString(checkConfig(userConfig).config.route))
                  ELSE serverPre
  /\ UNCHANGED <<req, calls>>

\* lines 178-185, a call preMiddleware(server, userConfig) that throws the
\* TypeError of line 181 or one of checkConfig's: the cache was already
\* replaced at line 179
ConstructFails(server, userConfig) ==
  /\ ~ValidServer(server) \/ ~checkConfig(userConfig).valid
  /\ shouldMeasureExcludedCache' = EmptyCache
  /\ UNCHANGED <<config, pathLimiter, requestHistogram, requestCounter, req, calls,
                 serverPre, defaultMetrics>>

RECURSIVE AddAll(_, _)
\* a metric after the observations of obs
AddAll(metric, obs) ==
  IF obs = <<>> THEN metric
  ELSE AddAll(metric (+) SetToBag({Head(obs)}), Tail(obs))

\* lines 199-207: the handler of instance i is invoked for a request and asks
\* the router for its route (requests are numbered in order of arrival)
Enter(r, i, input) ==
  /\ req[r].pc = "idle"
  /\ \A q \in Reqs : q < r => req[q].pc # "idle"
  /\ i \in Instances
  /\ req' = [req EXCEPT ![r] = [@ EXCEPT !.pc = "finding", !.inst = i,
                                         !.url = input.url,
                                         !.method = input.method]]
  /\ UNCHANGED <<shouldMeasureExcludedCache, config, pathLimiter,
                 requestHistogram, requestCounter, calls, serverPre, defaultMetrics>>

\* lines 207-259: the router's callback: the path is resolved, shouldMeasure
\* decides, the timer is started and the finish callbacks are registered,
\* next() is called.  When the exclude predicate throws, the exception leaves
\* the callback at line 222: nothing below that line runs for the request.
RouteFound(r) ==
  /\ req[r].pc = "finding"
  /\ LET i == req[r].inst
         found == RouterFind(req[r].url)
         path == ResolvePath(req[r].url, found)
     IN \E ret \in PredicateOutcomes(path, config[i], shouldMeasureExcludedCache) :
          LET sm == shouldMeasure(path, config[i], shouldMeasureExcludedCache, ret)
              ins == IF sm.threw
                     THEN [timed |-> FALSE, counted |-> FALSE, limiter |-> pathLimiter[i]]
                     ELSE Instrument(sm.measure, found.error, pathLimiter[i], path)
              st == startTimer(ins.timed, path, req[r].method)
          IN /\ shouldMeasureExcludedCache' = sm.cache
             /\ pathLimiter' = [pathLimiter EXCEPT ![i] = ins.limiter]
             /\ requestHistogram' = [requestHistogram EXCEPT ![i] = AddAll(@, st.observed)]
             /\ req' = [req EXCEPT ![r] =
                  [@ EXCEPT !.pc = IF sm.threw THEN "threw" ELSE "routed",
                            !.path = path,
                            !.routeFindError = found.error,
                            !.measure = sm.measure,
                            !.hit = sm.hit,
                            !.evaluated = sm.evaluated,
                            !.ret = ret,
                            !.timer = st.timer,
                            !.hist = st.observed,
                            !.onFinished = (IF ins.timed THEN <<"timerEnd">> ELSE <<>>)
                                           \o (IF ins.counted THEN <<"inc">> ELSE <<>>),
                            !.nextCalls = IF sm.threw THEN @ ELSE @ + 1]]
  /\ UNCHANGED <<config, requestCounter, calls, serverPre, defaultMetrics>>

\* labels of the observation made by one finish callback of request r
\* (lines 231-235 for the timer, lines 241-247 for the counter)
CallbackLabels(cb, r, res2) ==
  IF cb = "timerEnd"
  THEN [path |-> req[r].timer[1].path, method |-> req[r].timer[1].method,
        status_code |-> StatusCodeLabel(res2)]
  ELSE [path |-> req[r].path, method |-> req[r].method,
        status_code |-> StatusCodeLabel(res2)]

\* lines 230-236 and 240-248: the response of request r finishes and
\* on-finished runs the callbacks registered for it, handing them res2
Finish(r, res2) ==
  /\ req[r].pc = "routed"
  /\ LET i == req[r].inst
         cbs == req[r].onFinished
         h == IF \E k \in 1..Len(cbs) : cbs[k] = "timerEnd"
              THEN <<CallbackLabels("timerEnd", r, res2)>> ELSE <<>>
         c == IF \E k \in 1..Len(cbs) : cbs[k] = "inc"
              THEN <<CallbackLabels("inc", r, res2)>> ELSE <<>>
     IN /\ requestHistogram' = [requestHistogram EXCEPT ![i] = AddAll(@, h)]
        /\ requestCounter' = [requestCounter EXCEPT ![i] = AddAll(@, c)]
        /\ req' = [req EXCEPT ![r] = [@ EXCEPT !.pc = "finished", !.res = res2,
                                               !.hist = @ \o h, !.cnt = c]]
  /\ UNCHANGED <<shouldMeasureExcludedCache, config, pathLimiter, calls,
                 serverPre, defaultMetrics>>

Next ==
  \/ \E call \in ConstructorCalls : Construct(call[1], call[2])
  \/ \E call \in ConstructorCalls : ConstructFails(call[1], call[2])
  \/ \E r \in Reqs, i \in Instances, input \in RequestInputs : Enter(r, i, input)
  \/ \E r \in Reqs : RouteFound(r)
  \/ \E r \in Reqs, res2 \in ResponsesAtFinish : Finish(r, res2)

Spec == Init /\ [][Next]_vars

(* ------------------- the path limiter on its own ----------------------- *)
\* paths handed to the limiter when it is exercised directly
LimiterPaths == {"/a", "/b", "/c"}

\* the state preMiddleware(server, {maxPathsToCount: cap}) leaves when it
\* returns (lines 179-197), for a capacity between 0 and MaxCap
InitLimiter ==
  /\ shouldMeasureExcludedCache = EmptyCache
  /\ \E cap \in 0..MaxCap :
       /\ config = <<checkConfig(ObjConfig(Absent, Num(cap))).config>>
       /\ pathLimiter = <<NewPathLimit(config[1].maxPathsToCount.n)>>
  /\ requestHistogram = <<EmptyBag>>
  /\ requestCounter = <<EmptyBag>>
  /\ req = [r \in Reqs |-> IdleReq]
  /\ calls = <<>>
  /\ serverPre = IF Truthy(config[1].route)
                 THEN <<PathToString(config[1].route)>> ELSE <<>>
  /\ defaultMetrics = <<[blacklist |-> config[1].promBlacklist,
                         delay |-> config[1].promDefaultDelay.n]>>

\* a call pathLimiter.registerPath(path) on the limiter of instance 1
RegisterPathCall(path) ==
  /\ Len(calls) < MaxCalls
  /\ LET reg == registerPath(pathLimiter[1], path)
     IN /\ pathLimiter' = [pathLimiter EXCEPT ![1] = reg.limiter]
        /\ calls' = Append(calls, [path |-> path, result |-> reg.result,
                                   hit |-> FALSE, ret |-> Absent])
  /\ UNCHANGED <<shouldMeasureExcludedCache, config, requestHistogram,
                 requestCounter, req, serverPre, defaultMetrics>>

NextLimiter == \E path \in LimiterPaths : RegisterPathCall(path)

SpecLimiter == InitLimiter /\ [][NextLimiter]_vars

(* ------------------ the exclusion matcher on its own ------------------- *)
\* exclude options of every accepted shape: none, a string, a list, a
\* pattern, two predicates, and two falsy values the check lets through
MatcherExcludes ==
  { Absent, Str("/health"), Arr({"/health", "/orders/:id"}),
    Rx("/^\\/does/"), Rx("/^\\/orders\\//"), Fn("flaky"), Fn("isOrders"),
    Str(""), Num(0) }

\* one instance constructed with one of these exclude options
InitMatcher ==
  /\ shouldMeasureExcludedCache = EmptyCache
  /\ \E e \in MatcherExcludes :
       /\ checkConfig(ObjConfig(e, Absent)).valid
       /\ config = <<checkConfig(ObjConfig(e, Absent)).config>>
  /\ pathLimiter = <<NewPathLimit(config[1].maxPathsToCount.n)>>
  /\ requestHistogram = <<EmptyBag>>
  /\ requestCounter = <<EmptyBag>>
  /\ req = [r \in Reqs |-> IdleReq]
  /\ calls = <<>>
  /\ serverPre = IF Truthy(config[1].route)
                 THEN <<PathToString(config[1].route)>> ELSE <<>>
  /\ defaultMetrics = <<[blacklist |-> config[1].promBlacklist,
                         delay |-> config[1].promDefaultDelay.n]>>

\* a call shouldMeasure(path, config) by the handler of instance 1
ShouldMeasureCall(path) ==
  /\ Len(calls) < MaxCalls
  /\ \E ret \in PredicateOutcomes(path, config[1], shouldMeasureExcludedCache) :
       LET sm == shouldMeasure(path, config[1], shouldMeasureExcludedCache, ret)
       IN /\ shouldMeasureExcludedCache' = sm.cache
          /\ calls' = Append(calls, [path |-> path, result |-> sm.measure,
                                     hit |-> sm.hit, ret |-> ret])
  /\ UNCHANGED <<config, pathLimiter, requestHistogram, requestCounter, req,
                 serverPre, defaultMetrics>>

NextMatcher == \E path \in Paths : ShouldMeasureCall(path)

SpecMatcher == InitMatcher /\ [][NextMatcher]_vars

(* ------------- one middleware instance serving requests ---------------- *)
\* requests for every raw path of the routing table
AllRequestInputs ==
  RequestInputs \cup { [url |-> "/orders/9", method |-> "GET"],
                       [url |-> "/files/a", method |-> "GET"] }

\* second arguments whose exclude option is a predicate that answers by the
\* route, or one that throws when it is called
PredicateUserConfigs ==
  { ObjConfig(Fn("isOrders"), Num(2)), ObjConfig(Fn("broken"), Num(1)) }

\* the state preMiddleware(server, userConfig) leaves when it returns the
\* handler (lines 179-197), for one valid second argument
InitSingle ==
  /\ shouldMeasureExcludedCache = EmptyCache
  /\ \E userConfig \in ValidUserConfigs \cup PredicateUserConfigs :
       /\ checkConfig(userConfig).valid
       /\ config = <<checkConfig(userConfig).config>>
       /\ pathLimiter = <<NewPathLimit(config[1].maxPathsToCount.n)>>
       /\ defaultMetrics = <<[blacklist |-> config[1].promBlacklist,
                              delay |-> config[1].promDefaultDelay.n]>>
       /\ serverPre = IF Truthy(config[1].route)
                      THEN <<PathToString(config[1].route)>> ELSE <<>>
  /\ requestHistogram = <<EmptyBag>>
  /\ requestCounter = <<EmptyBag>>
  /\ req = [r \in Reqs |-> IdleReq]
  /\ calls = <<>>

NextSingle ==
  \/ \E r \in Reqs, input \in AllRequestInputs : Enter(r, 1, input)
  \/ \E r \in Reqs : RouteFound(r)
  \/ \E r \in Reqs, res2 \in AllResponsesAtFinish : Finish(r, res2)

SpecSingle == InitSingle /\ [][NextSingle]_vars

(* --------------------- construction on its own ------------------------- *)
\* second arguments that differ from a plain valid one in one place: the
\* argument itself, or one option given a value of each kind
ArgumentVariants ==
  { UserConfig("undefined", Absent, Absent, Absent, Absent, Absent),
    UserConfig("null", Absent, Absent, Absent, Absent, Absent),
    UserConfig("string", Absent, Absent, Absent, Absent, Absent) }
RouteVariants ==
  { UserConfig("object", v, Absent, Absent, Absent, Absent) :
      v \in {Bool(FALSE), Bool(TRUE), Str("/m"), Str(""), Undefined} }
ExcludeVariants ==
  { UserConfig("object", Absent, v, Absent, Absent, Absent) :
      v \in {Str("/health"), Arr({"/health"}), Rx("/^\\/does/"), Fn("isOrders"),
             Num(5), Obj, Num(0), Bool(FALSE), Null} }
BlacklistVariants ==
  { UserConfig("object", Absent, Absent, v, Absent, Absent) :
      v \in {Arr({"version"}), Str("version"), Null} }
DelayVariants ==
  { UserConfig("object", Absent, Absent, Absent, v, Absent) :
      v \in {Num(MinPromDelay), Num(MinPromDelay - 1), Num(MinPromDelay + 1),
             Str("1000")} }
\* the calls of preMiddleware made when construction is exercised directly
AllConstructorCalls ==
  { <<"server", c>> : c \in ArgumentVariants \cup RouteVariants \cup ExcludeVariants
                              \cup BlacklistVariants \cup DelayVariants }
  \cup { <<"notAServer", Undefined>> }

NextConstruct ==
  \/ \E call \in AllConstructorCalls : Construct(call[1], call[2])
  \/ \E call \in AllConstructorCalls : ConstructFails(call[1], call[2])

SpecConstruct == Init /\ [][NextConstruct]_vars

(* ------------------------- notions used by the claims ------------------ *)
\* the router has reported for request r and the handler has run
Routed(r) == req[r].pc \in {"routed", "finished"}
\* the router has reported for request r: the callback of line 207 was
\* entered, whether it returned or was left by an exception
Reported(r) == req[r].pc \in {"routed", "finished", "threw"}
\* the response of request r has finished
Finished(r) == req[r].pc = "finished"
\* the label a request gets, computed from what the client sent
LabelOf(r) == ResolvePath(req[r].url, RouterFind(req[r].url))
\* route resolution succeeds for the request
Resolves(r) == ~RouterFind(req[r].url).error
\* the labels of the one observation a finished request can make
FinalLabels(r) ==
  [path |-> LabelOf(r), method |-> req[r].method,
   status_code |-> IF req[r].res.defined THEN req[r].res.statusCode ELSE 0]
\* the limiter of instance i admits path: a member, or room is left
LimiterAdmits(i, path) ==
  \/ path \in pathLimiter[i].paths
  \/ Cardinality(pathLimiter[i].paths) < pathLimiter[i].max
\* the exclusion rules of an exclude option applied to a path, ret being the
\* value its predicate returned
RuleExcludes(exclude, path, ret) ==
  \/ exclude.type = "array" /\ path \in exclude.s
  \/ exclude.type = "regexp" /\ RegExpTest(exclude, path)
  \/ exclude.type = "function" /\ Truthy(ret)
\* the configuration excludes the path whatever its predicate answers
ExcludedByConfig(cfg, path) ==
  \A v \in (IF cfg.exclude.type = "function"
            THEN FnReturns(cfg.exclude, path) ELSE {Absent}) :
     RuleExcludes(cfg.exclude, path, v)
\* the configuration excludes the path for no answer of its predicate
MeasuredByConfig(cfg, path) ==
  \A v \in (IF cfg.exclude.type = "function"
            THEN FnReturns(cfg.exclude, path) ELSE {Absent}) :
     ~RuleExcludes(cfg.exclude, path, v)
\* call k of the matcher specification is the first one for its path
FirstEncounter(k) == \A j \in 1..(k - 1) : calls[j].path # calls[k].path
\* the paths the limiter admitted before call k of the limiter specification
AdmittedBefore(k) == { calls[j].path : j \in { n \in 1..(k - 1) : calls[n].result } }

\* the label the routing table of the universe calls for: the template of
\* the matched route, RegExp(<pattern>) for the pattern route, the raw path
\* when no route matches
ExpectedLabel(url) ==
  CASE url = "/health" -> "/health"
    [] url \in {"/orders/7", "/orders/9"} -> "/orders/:id"
    [] url = "/files/a" -> "RegExp(/^\\/files\\/(.*)/)"
    [] OTHER -> url
\* the path labels of a sequence of observations or of stored timer labels
PathsOf(obs) == { obs[k].path : k \in 1..Len(obs) }

\* what the interface asks of each option (lines 25-42 and the messages of
\* the TypeErrors): v is the option as given, Absent when the key is missing
RouteAsDocumented(v) ==
  v.type = "absent" \/ v = Bool(FALSE) \/ (v.type = "string" /\ v.s # {""})
ExcludeAsDocumented(v) ==
  v.type \in {"absent", "undefined", "string", "array", "regexp", "function"}
BlacklistAsDocumented(v) == v.type \in {"absent", "array"}
DelayAsDocumented(v) ==
  v.type = "absent" \/ (v.type = "number" /\ v.n >= 1000)
\* a construction call all of whose arguments are as documented
CallAsDocumented(call) ==
  /\ call[1] = "server"
  /\ call[2].type \in {"undefined", "null", "object"}
  /\ call[2].type = "object" =>
       /\ RouteAsDocumented(call[2].route)
       /\ ExcludeAsDocumented(call[2].exclude)
       /\ BlacklistAsDocumented(call[2].promBlacklist)
       /\ DelayAsDocumented(call[2].promDefaultDelay)

(* -------------------------------- claims ------------------------------- *)
\* C1: every finished request whose path shouldMeasure accepted and the path
\* limiter admits has incremented the counter exactly once, with labels
\* path = its resolved path, method = its method, status_code = the final
\* status code of its response; this holds for unmatched paths too.
C1_CounterIncrementedOnce ==
  \A r \in Reqs :
    (Finished(r) /\ req[r].measure /\ LimiterAdmits(req[r].inst, req[r].path))
      => /\ req[r].cnt = <<FinalLabels(r)>>
         /\ BagIn(FinalLabels(r), requestCounter[req[r].inst])

\* C2: a request has a histogram observation if and only if its response has
\* finished, shouldMeasure accepted its path and its route resolved; then it
\* has exactly one, labelled with the path and method it entered with; a
\* timer runs for a routed request under the same condition, and the
\* histogram of an instance holds exactly the observations of its requests.
C2_HistogramIffMeasuredAndResolved ==
  /\ \A r \in Reqs :
       /\ (req[r].hist # <<>>) <=> (Finished(r) /\ req[r].measure /\ Resolves(r))
       /\ req[r].hist # <<>> => req[r].hist = <<FinalLabels(r)>>
       /\ Routed(r) => ((req[r].timer # <<>>) <=> (req[r].measure /\ Resolves(r)))
       /\ ~Resolves(r) => req[r].hist = <<>> /\ req[r].timer = <<>>
  /\ \A i \in Instances :
       BagCardinality(requestHistogram[i]) =
         Cardinality({ r \in Reqs : req[r].inst = i /\ req[r].hist # <<>> })

\* C2 witness: a resolved request was observed once while an unmatched one,
\* also accepted by shouldMeasure, finished without an observation
C2_Witness ==
  \E r1, r2 \in Reqs :
    /\ Finished(r1) /\ Resolves(r1) /\ req[r1].measure /\ Len(req[r1].hist) = 1
    /\ Finished(r2) /\ ~Resolves(r2) /\ req[r2].measure /\ req[r2].hist = <<>>

\* C3: a request whose path the instance's exclude list, pattern or predicate
\* excludes never gets a timer, a histogram observation or a counter
\* increment, and a resolved request of the same instance whose path they do
\* not exclude has its histogram observation once its response has finished.
C3_ExcludedNeverMeasured ==
  \A r \in Reqs :
    /\ (Routed(r) /\ ExcludedByConfig(config[req[r].inst], req[r].path))
         => req[r].timer = <<>> /\ req[r].onFinished = <<>>
            /\ req[r].hist = <<>> /\ req[r].cnt = <<>>
    /\ (Finished(r) /\ Resolves(r) /\ MeasuredByConfig(config[req[r].inst], req[r].path))
         => Len(req[r].hist) = 1

\* C4: the admitted path set of every limiter holds at most its capacity, and
\* every path that was admitted is still in it.
C4_AdmittedSetBoundedAndMonotonic ==
  \A i \in Instances :
    /\ Cardinality(pathLimiter[i].paths) <= pathLimiter[i].max
    /\ i = 1 => \A k \in 1..Len(calls) :
                  calls[k].result => calls[k].path \in pathLimiter[i].paths

\* C4 witness: a limiter of positive capacity is full and has turned a path
\* away
C4_Witness ==
  /\ pathLimiter[1].max > 0
  /\ Cardinality(pathLimiter[1].paths) = pathLimiter[1].max
  /\ \E k \in 1..Len(calls) : ~calls[k].result

\* C5: registerPath returns true for a member and for a new path while room
\* is left, false for a new path at capacity; the set holds exactly the paths
\* it returned true for (a member adds nothing, a denied path is not
\* inserted); with capacity 2 the calls /a, /b, /c, /a return true, true,
\* false, true.
C5_AdmitContract ==
  /\ \A k \in 1..Len(calls) :
       calls[k].result =
         (\/ calls[k].path \in AdmittedBefore(k)
          \/ Cardinality(AdmittedBefore(k)) < pathLimiter[1].max)
  /\ pathLimiter[1].paths = AdmittedBefore(Len(calls) + 1)
  /\ (/\ pathLimiter[1].max = 2
      /\ [k \in 1..Len(calls) |-> calls[k].path] = <<"/a", "/b", "/c", "/a">>)
       => [k \in 1..Len(calls) |-> calls[k].result] = <<TRUE, TRUE, FALSE, TRUE>>

\* C5 witness: the scenario with capacity 2 has been played
C5_Witness ==
  /\ pathLimiter[1].max = 2
  /\ [k \in 1..Len(calls) |-> calls[k].path] = <<"/a", "/b", "/c", "/a">>
  /\ pathLimiter[1].paths = {"/a", "/b"}

\* C6: when all requests have finished and an instance has handled requests
\* to more distinct accepted paths than its capacity, exactly capacity many
\* distinct path labels are in its counter.
C6_ExactlyCapacityLabels ==
  \A i \in Instances :
    LET mine == { r \in Reqs : req[r].inst = i }
        labels == { l.path : l \in BagToSet(requestCounter[i]) }
    IN (/\ \A r \in Reqs : Finished(r)
        /\ \A r \in mine : req[r].measure
        /\ \A r1, r2 \in mine : r1 # r2 => req[r1].path # req[r2].path
        /\ Cardinality(mine) > pathLimiter[i].max)
         => Cardinality(labels) = pathLimiter[i].max

\* C7: a finished, resolved request whose path shouldMeasure accepted has
\* its histogram observation whatever the limiter's capacity and content,
\* and an instance of capacity 0 never increments its counter.
C7_LimiterGatesOnlyCounter ==
  /\ \A r \in Reqs :
       (Finished(r) /\ req[r].measure /\ Resolves(r))
         => /\ Len(req[r].hist) = 1
            /\ BagIn(FinalLabels(r), requestHistogram[req[r].inst])
  /\ \A i \in Instances :
       pathLimiter[i].max = 0
         => /\ requestCounter[i] = EmptyBag
            /\ \A r \in Reqs : req[r].inst = i => req[r].cnt = <<>>

\* C7 witness: an instance of capacity 0, whose limiter admits nothing, has
\* observed the duration of a finished request
C7_Witness ==
  \E r \in Reqs :
    /\ Finished(r) /\ Len(req[r].hist) = 1
    /\ pathLimiter[req[r].inst].max = 0
    /\ ~LimiterAdmits(req[r].inst, req[r].path)

\* C8: the first call of shouldMeasure for a path returns false exactly when
\* the path is in the exclude list, matches the exclude pattern, or the
\* exclude predicate returned a truthy value; every call returns true when
\* no exclude option is in force.
C8_FirstEncounterFollowsRules ==
  /\ \A k \in 1..Len(calls) :
       FirstEncounter(k)
         => calls[k].result = ~RuleExcludes(config[1].exclude, calls[k].path, calls[k].ret)
  /\ ~Truthy(config[1].exclude) => \A k \in 1..Len(calls) : calls[k].result

\* C8 witness: a predicate returned a truthy value that is not a boolean on
\* the first encounter of a path, which was excluded, and another path was
\* measured
C8_Witness ==
  \E k, j \in 1..Len(calls) :
    /\ config[1].exclude.type = "function"
    /\ FirstEncounter(k) /\ calls[k].ret = Obj /\ ~calls[k].result
    /\ FirstEncounter(j) /\ calls[j].result

\* C9: two shouldMeasure calls of one instance for the same path return the
\* same result.
C9_DecisionNeverChanges ==
  \A r1, r2 \in Reqs :
    (/\ Routed(r1) /\ Routed(r2)
     /\ req[r1].inst = req[r2].inst
     /\ req[r1].path = req[r2].path)
      => req[r1].measure = req[r2].measure

\* C10: the exclusion rules are evaluated for at most one request per
\* instance and path.
C10_RulesEvaluatedAtMostOnce ==
  \A r1, r2 \in Reqs :
    (/\ r1 # r2
     /\ Routed(r1) /\ Routed(r2)
     /\ req[r1].inst = req[r2].inst
     /\ req[r1].path = req[r2].path)
      => ~(req[r1].evaluated /\ req[r2].evaluated)

\* C11: for every request the router reported for, the handler called next()
\* exactly once, whatever was decided for its path, and did so when the
\* router reported: before the response finished and any finish callback ran
C11_NextCalledExactlyOnce ==
  \A r \in Reqs :
    /\ Reported(r) => req[r].nextCalls = 1
    /\ ~Reported(r) => req[r].nextCalls = 0 /\ req[r].hist = <<>> /\ req[r].cnt = <<>>

\* C12: no request fails because of metrics collection: no outcome of route
\* resolution, of the exclusion check or of the limiter check makes the
\* handler raise an error
C12_HandlerNeverThrows ==
  \A r \in Reqs : req[r].pc # "threw"

\* C13: the path of a request is decided by the matched route alone: the
\* route's template (the same for /orders/7 and /orders/9), RegExp(<pattern>)
\* for a pattern route, the raw request path when no route matches; and that
\* one path is the key of the exclusion decision, the path handed to the
\* limiter and the path label of the timer, the histogram and the counter
C13_PathDependsOnRouteOnly ==
  /\ \A r \in Reqs :
       Reported(r) =>
         /\ req[r].path = ExpectedLabel(req[r].url)
         /\ PathsOf(req[r].timer) \subseteq {req[r].path}
         /\ PathsOf(req[r].hist) \subseteq {req[r].path}
         /\ PathsOf(req[r].cnt) \subseteq {req[r].path}
         /\ req[r].evaluated /\ req[r].pc # "threw" =>
              req[r].path \in DOMAIN shouldMeasureExcludedCache
  /\ \A r, q \in Reqs :
       /\ Reported(r) /\ Reported(q)
       /\ Resolves(r) /\ RouterFind(req[r].url) = RouterFind(req[q].url)
       => req[r].path = req[q].path
  /\ DOMAIN shouldMeasureExcludedCache \cup pathLimiter[1].paths
       \subseteq { req[r].path : r \in { q \in Reqs : Reported(q) } }

\* two finished and timed requests for /orders/7 and /orders/9
C13_Witness ==
  \E r, q \in Reqs :
    /\ Finished(r) /\ Finished(q)
    /\ req[r].url = "/orders/7" /\ req[q].url = "/orders/9"
    /\ req[r].hist # <<>> /\ req[q].hist # <<>>
    /\ req[r].hist[1].path = "/orders/:id" /\ req[q].hist[1].path = "/orders/:id"

\* C14: a construction call returns a handler only when the server and every
\* option are as documented, and a call that raises the TypeError registers
\* no scrape route, starts no default probes and creates no instruments, no
\* limiter and no handler; a documented call (a delay of exactly 1000
\* included) is accepted
C14_InvalidConstructionRejected ==
  [][\A call \in AllConstructorCalls :
       /\ Construct(call[1], call[2]) => CallAsDocumented(call)
       /\ ConstructFails(call[1], call[2]) =>
            UNCHANGED <<serverPre, defaultMetrics, requestHistogram,
                        requestCounter, config, pathLimiter>>
       /\ CallAsDocumented(call) =>
            ValidServer(call[1]) /\ checkConfig(call[2]).valid]_vars

\* C15: the status_code label of every observation of a finished request is
\* the status code its response had when it finished, and 0 when the
\* response or its status code was unavailable then; an unavailable status
\* does not suppress the observation of a request that was timed or counted
C15_StatusCodeTakenAtFinish ==
  \A r \in Reqs :
    Finished(r) =>
      /\ \A k \in 1..Len(req[r].hist) :
           req[r].hist[k].status_code =
             IF req[r].res.defined THEN req[r].res.statusCode ELSE 0
      /\ \A k \in 1..Len(req[r].cnt) :
           req[r].cnt[k].status_code =
             IF req[r].res.defined THEN req[r].res.statusCode ELSE 0
      /\ Len(req[r].hist) = Len(req[r].timer)
      /\ Len(req[r].hist) + Len(req[r].cnt) = Len(req[r].onFinished)

\* two timed requests have finished, one with status 404 and one whose
\* response was unavailable, observed with the labels 404 and 0
C15_Witness ==
  \E r, q \in Reqs :
    /\ Finished(r) /\ req[r].res = [defined |-> TRUE, statusCode |-> 404]
    /\ req[r].hist # <<>> /\ req[r].hist[1].status_code = 404
    /\ Finished(q) /\ ~req[q].res.defined
    /\ req[q].hist # <<>> /\ req[q].hist[1].status_code = 0

\* C16: a request whose response has not finished has no histogram
\* observation and no counter increment, whatever other requests did; the
\* instruments hold exactly the observations of the finished requests, so
\* which requests are observed does not depend on the order of finishing
C16_ObservedOnlyAtFinish ==
  /\ \A r \in Reqs : ~Finished(r) => req[r].hist = <<>> /\ req[r].cnt = <<>>
  /\ \A r \in Reqs : Finished(r) => Len(req[r].hist) = Len(req[r].timer)
  /\ BagCardinality(requestHistogram[1]) =
       Cardinality({ r \in Reqs : Finished(r) /\ req[r].timer # <<>> })
  /\ BagCardinality(requestCounter[1]) =
       Cardinality({ r \in Reqs : Finished(r) /\ req[r].cnt # <<>> })

\* the second request to arrive was timed and has finished and been
\* observed, while the first, timed as well, is still unfinished
C16_Witness ==
  /\ req[1].pc = "routed" /\ req[1].timer # <<>> /\ req[1].hist = <<>>
  /\ req[2].pc = "finished" /\ req[2].hist # <<>>
  /\ BagCardinality(requestHistogram[1]) = 1

\* C17: with two instances constructed with different exclude options, the
\* decision made for every request is the one the exclude option of its own
\* instance gives for its path, and a decision that came from the cache was
\* put there by a request of the same instance
C17_InstancesIsolated ==
  (Len(config) = 2 /\ config[1].exclude # config[2].exclude) =>
    \A r \in Reqs :
      Routed(r) =>
        /\ ExcludedByConfig(config[req[r].inst], req[r].path) => ~req[r].measure
        /\ MeasuredByConfig(config[req[r].inst], req[r].path) => req[r].measure
        /\ req[r].hit =>
             \E q \in Reqs \ {r} :
               /\ Routed(q) /\ req[q].inst = req[r].inst
               /\ req[q].path = req[r].path /\ req[q].evaluated

\* C18: the limiter is consulted only for requests that passed the exclusion
\* check: every path of the admitted set was handed over by a request the
\* exclusion check accepted, so no request that was excluded holds a place
\* in the set or takes one from a path that is not excluded
C18_ExcludedNeverConsumesCapacity ==
  /\ \A path \in pathLimiter[1].paths :
       \E r \in Reqs : Routed(r) /\ req[r].path = path /\ req[r].measure
  /\ \A r \in Reqs :
       (Routed(r) /\ ~req[r].measure /\ req[r].evaluated)
         => req[r].path \notin pathLimiter[1].paths /\ req[r].onFinished = <<>>

\* an instance whose limiter has room has handled a request that its
\* exclude option excluded, and the path of that request is not admitted
C18_Witness ==
  \E r \in Reqs :
    /\ Routed(r) /\ ~req[r].measure /\ req[r].evaluated
    /\ pathLimiter[1].max > 0
    /\ req[r].path \notin pathLimiter[1].paths

\* C19: a construction call that fails with a TypeError changes nothing of
\* the instances constructed before it: their configs, limiters and
\* instruments are as they were, and the exclusion cache they use holds
\* every decision it held before the call
C19_FailedConstructionChangesNothing ==
  [][(\E call \in ConstructorCalls : ConstructFails(call[1], call[2])) =>
       /\ UNCHANGED <<config, pathLimiter, requestHistogram, requestCounter>>
       /\ \A path \in DOMAIN shouldMeasureExcludedCache :
            /\ path \in DOMAIN shouldMeasureExcludedCache'
            /\ shouldMeasureExcludedCache'[path] = shouldMeasureExcludedCache[path]]_vars

====
